---- MODULE Spec2Model ----
(***************************************************************************)
(* The RTU and Socket (MBAP) framers of pymodbus as one state machine,     *)
(* and the client that executes requests over a framer and a transport.    *)
(*                                                                         *)
(* One framer instance is modelled: `method` says which class it is        *)
(* ("rtu" for ModbusRtuFramer, "socket" for ModbusSocketFramer), `buffer`  *)
(* and `header` are its self._buffer and self._header.  Bytes are          *)
(* integers 0..255; Python's 0-based buffer[i] is buffer[i + 1] here.      *)
(***************************************************************************)
EXTENDS Integers, Sequences, FiniteSets, TLC

VARIABLES
    method,          \* ModbusFramer.method: "rtu" or "socket"
    buffer,          \* self._buffer
    header,          \* self._header
    wire,            \* bytes the transport has not delivered yet
    segs,            \* how the byte stream was put together (fixed per run)
    received,        \* every byte handed to processIncomingPacket so far
    slave,           \* the `slave` list of the current / last call
    single,          \* the `single` flag of the current / last call
    skip_cur_frame,  \* local of the RTU processing loop
    pc,              \* "idle", or "loop" inside the RTU while loop
    outcome,         \* the call: "none", "running", "returned", "raised"
    delivered,       \* the results the callback was invoked with, in order
    undecodable,     \* function codes the PDU decoder returns None for
    tid,             \* socket: the `tid` argument, <<>> for None, else <<t>>
    transport,       \* socket: "None", "nopeer" or the peer's address
    probe,           \* what the last loop iteration did (observation only)
    request,         \* the message handed to buildPacket / execute, if any
    client,          \* the client (transaction dispatcher) of the connection
    mock,            \* the MockTransport the client writes to
    now,             \* the clock (time.time()), in ticks
    call             \* the sendPacket call in progress, and its last result

vars == <<method, buffer, header, wire, segs, received, slave, single,
          skip_cur_frame, pc, outcome, delivered, undecodable, tid,
          transport, probe, request, client, mock, now, call>>

\* the state outside the framer instance
clientVars == <<request, client, mock, now, call>>

\* the clock and the sendPacket call
sendVars == <<now, call>>

\* the framer instance, its input and what was observed of it
framerVars == <<method, buffer, header, wire, segs, received, slave, single,
                skip_cur_frame, pc, outcome, delivered, undecodable, tid,
                transport, probe>>

----------------------------------------------------------------------------
(* Bounds of the model.                                                    *)

MaxSegs == 3          \* segments (frames / garbage runs) per byte stream

MaxData == 2          \* register bytes in the payload of an encoded message

MaxRetries == 2       \* the client's `retries` setting

MaxExecutes == 2      \* execute calls per run of the client

MaxTime == 8          \* the clock value up to which time passes between calls

MaxSends == 2         \* calls of sendPacket

----------------------------------------------------------------------------
(* Sequence helpers (Python slicing).                                      *)

Min(a, b) == IF a < b THEN a ELSE b

Max(a, b) == IF a > b THEN a ELSE b

\* data[from:to] with 0-based, end-exclusive Python indices (to >= 0)
Slice(data, from, to) ==
    SubSeq(data, Max(from, 0) + 1, Min(to, Len(data)))

\* data[from:]
Drop(data, from) == SubSeq(data, Min(from, Len(data)) + 1, Len(data))

\* data[-n:]
LastN(data, n) == SubSeq(data, Max(Len(data) - n, 0) + 1, Len(data))

RECURSIVE Flatten(_)
Flatten(ss) == IF ss = <<>> THEN <<>> ELSE Head(ss) \o Flatten(Tail(ss))

----------------------------------------------------------------------------
(* CRC-16/Modbus (pymodbus.utilities, outside the framer sources).         *)

RECURSIVE Xor(_, _)
Xor(a, b) ==
    IF a = 0 THEN b
    ELSE IF b = 0 THEN a
    ELSE ((a + b) % 2) + 2 * Xor(a \div 2, b \div 2)

RECURSIVE CrcShift(_, _)
CrcShift(c, n) ==
    IF n = 0 THEN c
    ELSE CrcShift(IF c % 2 = 1 THEN Xor(c \div 2, 40961) ELSE c \div 2, n - 1)

\* the 256-entry lookup table of the table-driven implementation
crc16_table == [b \in 0..255 |-> CrcShift(b, 8)]

RECURSIVE CrcFold(_, _)
CrcFold(c, data) ==
    IF data = <<>> THEN c
    ELSE CrcFold(Xor(c \div 256, crc16_table[Xor(c, Head(data)) % 256]),
                 Tail(data))

\* computeCRC: polynomial 0xA001, initial value 0xFFFF, result byte-swapped
\* so that pack(">H", crc) puts CRC_LO first on the wire.
computeCRC(data) ==
    LET crc == CrcFold(65535, data)
    IN  (crc % 256) * 256 + (crc \div 256)

checkCRC(data, check) == computeCRC(data) = check

\* struct.pack(">H", v)
PackH(v) == <<(v \div 256) % 256, v % 256>>

----------------------------------------------------------------------------
(* The PDU registry and decoder (external collaborators).                  *)

\* decoder.lookup.keys(): 3 = read holding registers (byte count at
\* offset 2), 7 = read exception status (fixed size).
function_codes == {3, 7}

\* lookupPduClass(fc).calculateRtuFrameSize(data); codes not in the lookup
\* fall back to the exception response class (fixed 5 bytes).
\* ok = FALSE stands for the IndexError "need more bytes".
calculateRtuFrameSize(func_code, data) ==
    IF func_code = 3
    THEN IF Len(data) > 2
         THEN [ok |-> TRUE, size |-> data[3] + 5]
         ELSE [ok |-> FALSE, size |-> 0]
    ELSE [ok |-> TRUE, size |-> 5]

\* decoder.decode(data): None (FALSE here) when the registry cannot decode
\* the PDU, else the PDU, represented by its bytes.
decodeOk(data, bad) == data # <<>> /\ data[1] \notin bad

----------------------------------------------------------------------------
(* ModbusFramer base class.                                                *)

HeaderZero == [uid |-> 0, tid |-> 0, pid |-> 0, len |-> 0, crc |-> <<0, 0>>]

\* ModbusFramer.resetFrame: empty the buffer, zero the header
BaseResetFrame(f) == [buffer |-> <<>>, header |-> HeaderZero]

\* ModbusFramer._validate_slave_id
BaseValidateSlaveId(f, slaves, sgl) ==
    \/ sgl
    \/ \E i \in 1..Len(slaves) : slaves[i] = 0
    \/ \E i \in 1..Len(slaves) : slaves[i] = f.header.uid

InList(x, list) == \E i \in 1..Len(list) : list[i] = x

----------------------------------------------------------------------------
(* ModbusRtuFramer.  A framer value f is [buffer, header].                 *)

RtuHsize == 1

\* get_expected_response_length: IndexError (ok = FALSE) when data[1] or
\* the byte count is not there yet
get_expected_response_length(data) ==
    IF Len(data) < 2
    THEN [ok |-> FALSE, size |-> 0]
    ELSE calculateRtuFrameSize(data[2], data)

\* populateHeader on self._buffer.  raised = TRUE is the IndexError; the
\* header fields assigned before the raise stay assigned.
populateHeader(f) ==
    LET data == f.buffer IN
    IF data = <<>>
    THEN [f |-> f, raised |-> TRUE, size |-> 0]
    ELSE
      LET h1 == [f.header EXCEPT !.uid = data[1], !.tid = data[1]]
          r  == get_expected_response_length(data)
      IN  IF ~r.ok
          THEN [f |-> [f EXCEPT !.header = h1], raised |-> TRUE, size |-> 0]
          ELSE
            LET h2 == [h1 EXCEPT !.len = r.size] IN
            IF Len(data) < r.size
            THEN [f |-> [f EXCEPT !.header = h2], raised |-> TRUE,
                  size |-> r.size]
            ELSE [f |-> [f EXCEPT !.header =
                           [h2 EXCEPT !.crc = Slice(data, r.size - 2, r.size)]],
                  raised |-> FALSE, size |-> r.size]

\* checkFrame answering True without comparing the CRC
RtuCheckFrame_NoCrc(f) ==
    LET p == populateHeader(f) IN
    [f |-> p.f, ok |-> ~p.raised, raised |-> FALSE]

\* checkFrame: [f, ok, raised].  The IndexError of populateHeader and of
\* crc[0], crc[1] is caught and answered False; raised (an exception that
\* leaves the method) is never set.
RtuCheckFrame(f) ==
    LET p == populateHeader(f) IN
    IF p.raised
    THEN [f |-> p.f, ok |-> FALSE, raised |-> FALSE]
    ELSE
      LET frame_size == p.f.header.len
          data       == Slice(p.f.buffer, 0, frame_size - 2)
          crc        == p.f.header.crc
      IN  IF Len(crc) < 2
          THEN [f |-> p.f, ok |-> FALSE, raised |-> FALSE]
          ELSE [f |-> p.f, ok |-> checkCRC(data, crc[1] * 256 + crc[2]),
                raised |-> FALSE]

\* advanceFrame skipping one byte too many
RtuAdvanceFrame_OneMore(f) ==
    [buffer |-> Drop(f.buffer, f.header.len + 1), header |-> HeaderZero]

\* advanceFrame
RtuAdvanceFrame(f) ==
    [buffer |-> Drop(f.buffer, f.header.len), header |-> HeaderZero]

\* resetFrame without the buffer put back
RtuResetFrame_DropsBuffer(f) == BaseResetFrame(f)

\* resetFrame: the base class reset with the buffer kept
RtuResetFrame(f) == [BaseResetFrame(f) EXCEPT !.buffer = f.buffer]

\* isFrameReady with the IndexError of populateHeader left uncaught
RtuIsFrameReady_NoCatch(f) ==
    LET size == f.header.len IN
    IF size = 0 /\ Len(f.buffer) > RtuHsize
    THEN LET p == populateHeader(f) IN
         [f |-> p.f, raised |-> p.raised,
          ready |-> ~p.raised /\ p.size > 0 /\ Len(p.f.buffer) >= p.size]
    ELSE [f |-> f, ready |-> size > 0 /\ Len(f.buffer) >= size,
          raised |-> FALSE]

\* isFrameReady: [f, ready, raised].  The IndexError of populateHeader is
\* caught and answered False; raised is never set.
RtuIsFrameReady(f) ==
    LET size == f.header.len IN
    IF size = 0 /\ Len(f.buffer) > RtuHsize
    THEN LET p == populateHeader(f) IN
         IF p.raised
         THEN [f |-> p.f, ready |-> FALSE, raised |-> FALSE]
         ELSE [f |-> p.f, ready |-> p.size > 0 /\ Len(p.f.buffer) >= p.size,
               raised |-> FALSE]
    ELSE [f |-> f, ready |-> size > 0 /\ Len(f.buffer) >= size,
          raised |-> FALSE]

\* getFrame
RtuGetFrame(f) ==
    LET end == f.header.len - 2 IN
    IF end > 0 THEN Slice(f.buffer, RtuHsize, end) ELSE <<>>

\* populateResult
RtuPopulateResult(f, pdu) ==
    [slave_id |-> f.header.uid, transaction_id |-> f.header.tid, pdu |-> pdu]

\* the test of one index with the slave id not looked at
StartAt_AnySlave(buf, i, slaves, broadcast) ==
    \/ buf[i + 2] \in function_codes
    \/ (buf[i + 2] - 128) \in function_codes

\* the test of one index i (0-based) in the scan of getFrameStart
StartAt(buf, i, slaves, broadcast) ==
    /\ broadcast \/ InList(buf[i + 1], slaves)
    /\ \/ buf[i + 2] \in function_codes
       \/ (buf[i + 2] - 128) \in function_codes

\* the scan starting at index 0 whatever skip_cur_frame says
ScanStart_Zero(skip) == 0

\* the scan starting at index 1 whatever skip_cur_frame says
ScanStart_One(skip) == 1

\* first index for `range(start, buf_len - 3)`
ScanStart(skip) == IF skip THEN 1 ELSE 0

\* getFrameStart with the buffer left alone when the scan finds nothing
getFrameStart_NoTrim(f, slaves, broadcast, skip) ==
    LET buf     == f.buffer
        buf_len == Len(buf)
        start   == ScanStart(skip)
        hits    == {i \in start..(buf_len - 4) : StartAt(buf, i, slaves, broadcast)}
    IN  IF buf_len >= 4 /\ hits # {}
        THEN LET i == CHOOSE j \in hits : \A k \in hits : j <= k
             IN  [f |-> [f EXCEPT !.buffer = Drop(buf, i)], found |-> TRUE]
        ELSE [f |-> f, found |-> FALSE]

\* getFrameStart keeping the first 3 bytes (buffer[:3]) when the scan
\* finds nothing
getFrameStart_KeepFirst(f, slaves, broadcast, skip) ==
    LET buf     == f.buffer
        buf_len == Len(buf)
        start   == ScanStart(skip)
        hits    == {i \in start..(buf_len - 4) : StartAt(buf, i, slaves, broadcast)}
    IN  IF buf_len < 4
        THEN [f |-> f, found |-> FALSE]
        ELSE IF hits # {}
        THEN LET i == CHOOSE j \in hits : \A k \in hits : j <= k
             IN  [f |-> [f EXCEPT !.buffer = Drop(buf, i)], found |-> TRUE]
        ELSE [f |-> [f EXCEPT !.buffer = Slice(buf, 0, 3)], found |-> FALSE]

\* getFrameStart: [f, found]
getFrameStart(f, slaves, broadcast, skip) ==
    LET buf     == f.buffer
        buf_len == Len(buf)
        start   == ScanStart(skip)
        hits    == {i \in start..(buf_len - 4) : StartAt(buf, i, slaves, broadcast)}
    IN  IF buf_len < 4
        THEN [f |-> f, found |-> FALSE]
        ELSE IF hits # {}
        THEN LET i == CHOOSE j \in hits : \A k \in hits : j <= k
             IN  [f |-> [f EXCEPT !.buffer = Drop(buf, i)], found |-> TRUE]
        ELSE [f |-> [f EXCEPT !.buffer = LastN(buf, 3)], found |-> FALSE]

\* _process calling the callback first and advancing the frame after it
RtuProcess_CallbackFirst(f, bad) ==
    LET data == RtuGetFrame(f) IN
    IF ~decodeOk(data, bad)
    THEN [f |-> f, raised |-> TRUE, out |-> <<>>, seen |-> <<>>]
    ELSE [f |-> RtuAdvanceFrame(f), raised |-> FALSE,
          out |-> <<RtuPopulateResult(f, data)>>, seen |-> <<f>>]

\* _process(callback): decode, populateResult, advanceFrame, callback
\* [f, raised, out, seen]; out is the sequence of results passed to the
\* callback, seen the framer as it is when the callback is invoked
RtuProcess(f, bad) ==
    LET data == RtuGetFrame(f) IN
    IF ~decodeOk(data, bad)
    THEN [f |-> f, raised |-> TRUE, out |-> <<>>, seen |-> <<>>]
    ELSE [f |-> RtuAdvanceFrame(f), raised |-> FALSE,
          out |-> <<RtuPopulateResult(f, data)>>,
          seen |-> <<RtuAdvanceFrame(f)>>]

\* One turn of the while loop of frameProcessIncomingPacket:
\* the loop condition (getFrameStart) and, when it holds, the loop body.
\* ctl: "continue" (next turn), "return" (loop left), "raise" (exception).
RtuLoopTurn(f, slaves, sgl, skip, bad) ==
    LET broadcast == slaves[1] = 0
        s == getFrameStart(f, slaves, broadcast, skip)
    IN
    IF ~s.found
    THEN [f |-> s.f, skip |-> skip, ctl |-> "return", out |-> <<>>,
          event |-> "nostart", cand |-> s.f.buffer,
          seen |-> <<>>]
    ELSE
      LET r == RtuIsFrameReady(s.f) IN
      IF r.raised
      THEN [f |-> r.f, skip |-> skip, ctl |-> "raise", out |-> <<>>,
            event |-> "error", cand |-> s.f.buffer,
            seen |-> <<>>]
      ELSE IF ~r.ready
      THEN [f |-> r.f, skip |-> skip, ctl |-> "return", out |-> <<>>,
            event |-> "notready", cand |-> s.f.buffer,
            seen |-> <<>>]
      ELSE
        LET c == RtuCheckFrame(r.f) IN
        IF c.raised
        THEN [f |-> c.f, skip |-> skip, ctl |-> "raise", out |-> <<>>,
              event |-> "error", cand |-> s.f.buffer,
              seen |-> <<>>]
        ELSE IF ~c.ok
        THEN [f |-> RtuResetFrame(c.f), skip |-> TRUE, ctl |-> "continue",
              out |-> <<>>, event |-> "crcfail", cand |-> s.f.buffer,
              seen |-> <<>>]
        ELSE IF ~BaseValidateSlaveId(c.f, slaves, sgl)
        THEN [f |-> RtuResetFrame(c.f), skip |-> TRUE, ctl |-> "continue",
              out |-> <<>>, event |-> "reject", cand |-> s.f.buffer,
              seen |-> <<>>]
        ELSE
          LET p == RtuProcess(c.f, bad) IN
          IF p.raised
          THEN [f |-> p.f, skip |-> skip, ctl |-> "raise", out |-> <<>>,
                event |-> "decodefail", cand |-> s.f.buffer,
                seen |-> <<>>]
          ELSE [f |-> p.f, skip |-> skip, ctl |-> "continue", out |-> p.out,
                event |-> "deliver", cand |-> s.f.buffer,
                seen |-> p.seen]

\* buildPacket writing the CRC low byte first (struct.pack("<H", ...))
RtuBuildPacket_CrcLowFirst(message) ==
    LET packet == <<message.slave_id, message.function_code>> \o message.data
        crc    == computeCRC(packet)
    IN  packet \o <<crc % 256, crc \div 256>>

\* buildPacket(message)
RtuBuildPacket(message) ==
    LET packet == <<message.slave_id, message.function_code>> \o message.data
    IN  packet \o PackH(computeCRC(packet))

----------------------------------------------------------------------------
(* ModbusSocketFramer.  Entries of its slave list are pairs               *)
(* <<peer address, uid>>, the peer address "" for a bare uid.              *)

SocketHsize == 7

\* struct.unpack(">HHHB", self._buffer[0:7]) into the header
UnpackHeader(buf) ==
    [HeaderZero EXCEPT !.tid = buf[1] * 256 + buf[2],
                       !.pid = buf[3] * 256 + buf[4],
                       !.len = buf[5] * 256 + buf[6],
                       !.uid = buf[7]]

\* _validate_slave_id looking up the bare uid whatever the transport says
SocketValidateSlaveId_BareUid(f, slaves, sgl, peer) ==
    IF sgl THEN TRUE
    ELSE IF InList(<<"", 0>>, slaves) THEN TRUE
    ELSE InList(<<"", f.header.uid>>, slaves)

\* _validate_slave_id
SocketValidateSlaveId(f, slaves, sgl, peer) ==
    IF sgl THEN TRUE
    ELSE IF InList(<<"", 0>>, slaves) THEN TRUE
    ELSE IF peer = "None" THEN InList(<<"", f.header.uid>>, slaves)
    ELSE IF peer = "nopeer" THEN InList(<<"", f.header.uid>>, slaves)
    ELSE InList(<<peer, f.header.uid>>, slaves)

\* isFrameReady
SocketIsFrameReady(f) == Len(f.buffer) > SocketHsize

\* advanceFrame
SocketAdvanceFrame(f) ==
    LET length == SocketHsize + f.header.len
    IN  [buffer |-> Drop(f.buffer, length), header |-> HeaderZero]

\* checkFrame comparing the bytes behind the header with the length field
\* without the unit id counted in
SocketCheckFrame_UidNotCounted(f) ==
    IF ~SocketIsFrameReady(f)
    THEN [f |-> f, ok |-> FALSE]
    ELSE
      LET g == [f EXCEPT !.header = UnpackHeader(f.buffer)] IN
      IF g.header.len < 2
      THEN [f |-> SocketAdvanceFrame(g), ok |-> FALSE]
      ELSE IF Len(g.buffer) - SocketHsize >= g.header.len
      THEN [f |-> g, ok |-> TRUE]
      ELSE [f |-> g, ok |-> FALSE]

\* checkFrame: [f, ok]
SocketCheckFrame(f) ==
    IF ~SocketIsFrameReady(f)
    THEN [f |-> f, ok |-> FALSE]
    ELSE
      LET g == [f EXCEPT !.header = UnpackHeader(f.buffer)] IN
      IF g.header.len < 2
      THEN [f |-> SocketAdvanceFrame(g), ok |-> FALSE]
      ELSE IF Len(g.buffer) - SocketHsize + 1 >= g.header.len
      THEN [f |-> g, ok |-> TRUE]
      ELSE [f |-> g, ok |-> FALSE]

\* getFrame
SocketGetFrame(f) ==
    LET length == SocketHsize + f.header.len
    IN  Slice(f.buffer, SocketHsize, length)

\* ModbusFramer.populateResult
BasePopulateResult(f, pdu) ==
    [slave_id |-> f.header.uid, transaction_id |-> f.header.tid,
     protocol_id |-> f.header.pid, pdu |-> pdu]

\* _process skipping over the undecodable frame instead of resetting
SocketProcess_DecodeFailAdvances(f, t, bad) ==
    LET data == SocketGetFrame(f) IN
    IF ~decodeOk(data, bad)
    THEN [f |-> SocketAdvanceFrame(f), raised |-> TRUE, out |-> <<>>,
          event |-> "decodefail", data |-> data, seen |-> <<>>]
    ELSE
      LET result == BasePopulateResult(f, data)
          g      == SocketAdvanceFrame(f)
      IN  IF t # <<>> /\ t[1] # 0 /\ t[1] # result.transaction_id
          THEN [f |-> BaseResetFrame(g), raised |-> FALSE, out |-> <<>>,
                event |-> "tidmismatch", data |-> data,
                seen |-> <<>>]
          ELSE [f |-> g, raised |-> FALSE, out |-> <<result>>,
                event |-> "deliver", data |-> data, seen |-> <<g>>]

\* _process(callback, tid): [f, raised, out, event, data, seen]; seen is
\* the framer as it is when the callback is invoked
SocketProcess(f, t, bad) ==
    LET data == SocketGetFrame(f) IN
    IF ~decodeOk(data, bad)
    THEN [f |-> BaseResetFrame(f), raised |-> TRUE, out |-> <<>>,
          event |-> "decodefail", data |-> data, seen |-> <<>>]
    ELSE
      LET result == BasePopulateResult(f, data)
          g      == SocketAdvanceFrame(f)
      IN  IF t # <<>> /\ t[1] # 0 /\ t[1] # result.transaction_id
          THEN [f |-> BaseResetFrame(g), raised |-> FALSE, out |-> <<>>,
                event |-> "tidmismatch", data |-> data,
                seen |-> <<>>]
          ELSE [f |-> g, raised |-> FALSE, out |-> <<result>>,
                event |-> "deliver", data |-> data, seen |-> <<g>>]

\* frameProcessIncomingPacket(single, callback, slave, tid)
SocketFrameProcess(f, slaves, sgl, t, peer, bad) ==
    LET c == SocketCheckFrame(f) IN
    IF ~c.ok
    THEN [f |-> c.f, raised |-> FALSE, out |-> <<>>, event |-> "notready",
          data |-> <<>>, hdr |-> c.f.header, seen |-> <<>>]
    ELSE IF ~SocketValidateSlaveId(c.f, slaves, sgl, peer)
    THEN [f |-> BaseResetFrame(c.f), raised |-> FALSE, out |-> <<>>,
          event |-> "reject", data |-> <<>>, hdr |-> c.f.header,
          seen |-> <<>>]
    ELSE
      LET p == SocketProcess(c.f, t, bad)
      IN  [f |-> p.f, raised |-> p.raised, out |-> p.out, event |-> p.event,
           data |-> p.data, hdr |-> c.f.header, seen |-> p.seen]

\* struct.pack(">HHHBB", ...): SOCKET_FRAME_HEADER
PackHHHBB(a, b, c, d, e) == PackH(a) \o PackH(b) \o PackH(c) \o <<d, e>>

\* buildPacket with the length field counting the data bytes only
SocketBuildPacket_LenOfData(message) ==
    PackHHHBB(message.transaction_id, message.protocol_id,
              Len(message.data), message.slave_id,
              message.function_code) \o message.data

\* buildPacket(message)
SocketBuildPacket(message) ==
    PackHHHBB(message.transaction_id, message.protocol_id,
              Len(message.data) + 2, message.slave_id,
              message.function_code) \o message.data

----------------------------------------------------------------------------
(* The byte streams of the model: up to MaxSegs segments, each a frame     *)
(* built by buildPacket, such a frame with its CRC bytes zeroed, or a run  *)
(* of bytes that is no frame.                                              *)

Msg(uid, fc, data) == [slave_id |-> uid, function_code |-> fc, data |-> data]

ZeroCrc(packet) == SubSeq(packet, 1, Len(packet) - 2) \o <<0, 0>>

Catalogue ==
    << [kind |-> "frame",   msg |-> Msg(1, 3, <<2, 0, 0>>),
        bytes |-> RtuBuildPacket(Msg(1, 3, <<2, 0, 0>>))],
       [kind |-> "frame",   msg |-> Msg(2, 7, <<0>>),
        bytes |-> RtuBuildPacket(Msg(2, 7, <<0>>))],
       [kind |-> "corrupt", msg |-> Msg(1, 3, <<2, 0, 10>>),
        bytes |-> ZeroCrc(RtuBuildPacket(Msg(1, 3, <<2, 0, 10>>)))],
       [kind |-> "garbage", msg |-> Msg(0, 0, <<>>),
        bytes |-> <<255, 255>>],
       [kind |-> "garbage", msg |-> Msg(0, 0, <<>>),
        bytes |-> <<1, 3>>] >>

SegSeqs == UNION {[1..n -> 1..Len(Catalogue)] : n \in 1..MaxSegs}

SegBytes(ss) == Flatten([i \in 1..Len(ss) |-> Catalogue[ss[i]].bytes])

\* The call parameters and decoder behaviours of the model: the slave
\* list, the `single` flag, and the function codes the decoder rejects.
Configs ==
    { [slave |-> <<1>>, single |-> FALSE, undecodable |-> {}],
      [slave |-> <<1>>, single |-> TRUE,  undecodable |-> {}],
      [slave |-> <<0>>, single |-> FALSE, undecodable |-> {}],
      [slave |-> <<0>>, single |-> FALSE, undecodable |-> {7}] }

NoProbe ==
    [event |-> "none", before |-> <<>>, cand |-> <<>>, skip |-> FALSE,
     data |-> <<>>, hdr |-> HeaderZero, seen |-> <<>>]

\* no message has been handed to buildPacket
NoMessage ==
    [transaction_id |-> 0, protocol_id |-> 0, slave_id |-> 0,
     function_code |-> 0, data |-> <<>>]

\* a client that has executed nothing: its settings (broadcast_enable,
\* retries), its transaction table (pending, next_tid), the state and the
\* result of its current execute, and the number of execute calls so far
NoClient ==
    [broadcast_enable |-> FALSE, retries |-> 0, retries_left |-> 0,
     state |-> "Idle", pending |-> {}, next_tid |-> 1, result |-> "none",
     executes |-> 0]

\* a MockTransport nothing was written to: the writes it still drops
\* (retries), the requests its response tasks will answer, the log of
\* the data written to it and the number of writes it has dropped
NoTransport ==
    [retries |-> 0, tasks |-> <<>>, written |-> <<>>, dropped |-> 0]

\* no sendPacket call has been made.  pc is the position of the call
\* ("idle": none in progress, "loop": at the while test, "send": behind
\* the loop) and timeout its local; n counts the calls made, sends the
\* calls of client.send, size is the last return value and mark the
\* number of bytes that had been received and state0 the client state
\* when the last call began; elapsed and slept are the time since
\* last_frame_end (<<>> with that unset) and the sleep of the
\* TRANSACTION_COMPLETE turn of the call in progress.
NoCall ==
    [pc |-> "idle", timeout |-> 0, n |-> 0, sends |-> 0, size |-> 0,
     mark |-> 0, state0 |-> "IDLE", elapsed |-> <<>>, slept |-> 0]

----------------------------------------------------------------------------
(* The RTU framer as a state machine.                                      *)

InitRtu ==
    /\ method = "rtu"
    /\ buffer = <<>>
    /\ header = HeaderZero
    /\ segs \in SegSeqs
    /\ wire = SegBytes(segs)
    /\ received = <<>>
    /\ \E c \in Configs :
         /\ slave = c.slave
         /\ single = c.single
         /\ undecodable = c.undecodable
    /\ skip_cur_frame = FALSE
    /\ pc = "idle"
    /\ outcome = "none"
    /\ delivered = <<>>
    /\ tid = <<>>
    /\ transport = "None"
    /\ probe = NoProbe
    /\ request = NoMessage
    /\ client = NoClient
    /\ mock = NoTransport
    /\ now = 0
    /\ call = NoCall

\* ModbusFramer.processIncomingPacket(data, callback, slave): append the
\* data to the buffer and enter frameProcessIncomingPacket.
RtuProcessIncomingPacket ==
    /\ method = "rtu"
    /\ pc = "idle"
    /\ \E n \in 1..Len(wire) :
         /\ buffer' = buffer \o SubSeq(wire, 1, n)
         /\ received' = received \o SubSeq(wire, 1, n)
         /\ wire' = Drop(wire, n)
    /\ skip_cur_frame' = FALSE
    /\ pc' = "loop"
    /\ outcome' = "running"
    /\ probe' = NoProbe
    /\ UNCHANGED <<method, header, segs, slave, single, delivered,
                   undecodable, tid, transport>>
    /\ UNCHANGED clientVars

\* One turn of the while loop of frameProcessIncomingPacket.
RtuFrameProcessLoop ==
    /\ method = "rtu"
    /\ pc = "loop"
    /\ \E t \in {RtuLoopTurn([buffer |-> buffer, header |-> header],
                             slave, single, skip_cur_frame, undecodable)} :
           /\ buffer' = t.f.buffer
           /\ header' = t.f.header
           /\ skip_cur_frame' = t.skip
           /\ delivered' = delivered \o t.out
           /\ pc' = IF t.ctl = "continue" THEN "loop" ELSE "idle"
           /\ outcome' = CASE t.ctl = "continue" -> outcome
                           [] t.ctl = "return"   -> "returned"
                           [] t.ctl = "raise"    -> "raised"
           /\ probe' = [event |-> t.event, before |-> buffer,
                        cand |-> t.cand, skip |-> skip_cur_frame,
                        data |-> <<>>, hdr |-> HeaderZero, seen |-> t.seen]
    /\ UNCHANGED <<method, wire, segs, received, slave, single, undecodable,
                   tid, transport>>
    /\ UNCHANGED clientVars

NextRtu == RtuProcessIncomingPacket \/ RtuFrameProcessLoop

SpecRtu == InitRtu /\ [][NextRtu]_vars

----------------------------------------------------------------------------
(* The Socket (MBAP) framer as a state machine.                            *)

SMsg(t, uid, fc, data) ==
    [transaction_id |-> t, protocol_id |-> 0, slave_id |-> uid,
     function_code |-> fc, data |-> data]

\* frames built by buildPacket, and a bare header with LEN = 1
SocketCatalogue ==
    << [kind |-> "frame", msg |-> SMsg(1, 1, 3, <<0, 0, 0, 10>>),
        bytes |-> SocketBuildPacket(SMsg(1, 1, 3, <<0, 0, 0, 10>>))],
       [kind |-> "frame", msg |-> SMsg(2, 1, 7, <<>>),
        bytes |-> SocketBuildPacket(SMsg(2, 1, 7, <<>>))],
       [kind |-> "frame", msg |-> SMsg(1, 2, 7, <<>>),
        bytes |-> SocketBuildPacket(SMsg(1, 2, 7, <<>>))],
       [kind |-> "short", msg |-> SMsg(3, 1, 0, <<>>),
        bytes |-> <<0, 3, 0, 0, 0, 1, 1>>] >>

SocketSegSeqs ==
    UNION {[1..n -> 1..Len(SocketCatalogue)] : n \in 1..MaxSegs}

SocketSegBytes(ss) ==
    Flatten([i \in 1..Len(ss) |-> SocketCatalogue[ss[i]].bytes])

\* slave list, single flag, expected tid, transport peer, decoder behaviour
SocketConfigs ==
    { [slave |-> << <<"", 1>> >>, single |-> FALSE, tid |-> <<>>,
       transport |-> "None", undecodable |-> {}],
      [slave |-> << <<"", 0>> >>, single |-> FALSE, tid |-> <<>>,
       transport |-> "None", undecodable |-> {}],
      [slave |-> << <<"", 1>> >>, single |-> TRUE, tid |-> <<1>>,
       transport |-> "nopeer", undecodable |-> {}],
      [slave |-> << <<"", 0>> >>, single |-> FALSE, tid |-> <<0>>,
       transport |-> "None", undecodable |-> {7}],
      [slave |-> << <<"hostA", 1>> >>, single |-> FALSE, tid |-> <<>>,
       transport |-> "hostA", undecodable |-> {}],
      [slave |-> << <<"", 1>> >>, single |-> FALSE, tid |-> <<>>,
       transport |-> "hostA", undecodable |-> {}] }

InitSocket ==
    /\ method = "socket"
    /\ buffer = <<>>
    /\ header = HeaderZero
    /\ segs \in SocketSegSeqs
    /\ wire = SocketSegBytes(segs)
    /\ received = <<>>
    /\ \E c \in SocketConfigs :
         /\ slave = c.slave
         /\ single = c.single
         /\ tid = c.tid
         /\ transport = c.transport
         /\ undecodable = c.undecodable
    /\ skip_cur_frame = FALSE
    /\ pc = "idle"
    /\ outcome = "none"
    /\ delivered = <<>>
    /\ probe = NoProbe
    /\ request = NoMessage
    /\ client = NoClient
    /\ mock = NoTransport
    /\ now = 0
    /\ call = NoCall

\* ModbusFramer.processIncomingPacket(data, callback, slave, tid=tid):
\* append the data (possibly none) and run frameProcessIncomingPacket.
SocketProcessIncomingPacket ==
    /\ method = "socket"
    /\ \E n \in 0..Len(wire) :
         \E r \in {SocketFrameProcess(
                       [buffer |-> buffer \o SubSeq(wire, 1, n),
                        header |-> header],
                       slave, single, tid, transport, undecodable)} :
             /\ received' = received \o SubSeq(wire, 1, n)
             /\ wire' = Drop(wire, n)
             /\ buffer' = r.f.buffer
             /\ header' = r.f.header
             /\ delivered' = delivered \o r.out
             /\ outcome' = IF r.raised THEN "raised" ELSE "returned"
             /\ probe' = [event |-> r.event,
                          before |-> buffer \o SubSeq(wire, 1, n),
                          cand |-> buffer \o SubSeq(wire, 1, n),
                          skip |-> FALSE, data |-> r.data, hdr |-> r.hdr,
                          seen |-> r.seen]
    /\ UNCHANGED <<method, segs, slave, single, skip_cur_frame, pc,
                   undecodable, tid, transport>>
    /\ UNCHANGED clientVars

NextSocket == SocketProcessIncomingPacket

SpecSocket == InitSocket /\ [][NextSocket]_vars

----------------------------------------------------------------------------
(* Either framer: the instance is a ModbusRtuFramer or a                   *)
(* ModbusSocketFramer, and stays what it is.                               *)

InitFramer == InitRtu \/ InitSocket

NextFramer == NextRtu \/ NextSocket

SpecFramer == InitFramer /\ [][NextFramer]_vars

----------------------------------------------------------------------------
(* Vocabulary of the RTU claims.                                           *)

Seg(i) == Catalogue[segs[i]]

Broadcast == slave[1] = 0

\* the frame of segment i is CRC-valid, addressed to an accepted slave id
\* and decodable
GoodFrame(i) ==
    /\ Seg(i).kind = "frame"
    /\ Broadcast \/ InList(Seg(i).msg.slave_id, slave)
    /\ Seg(i).msg.function_code \notin undecodable

\* what the callback receives for the frame built from message m
ResultOf(m) ==
    [slave_id |-> m.slave_id, transaction_id |-> m.slave_id,
     pdu |-> <<m.function_code>> \o m.data]

\* the segments of the stream that have been received completely
RECURSIVE WholeSegs(_, _)
WholeSegs(k, n) ==
    IF k > Len(segs) \/ Len(Seg(k).bytes) > n THEN k - 1
    ELSE WholeSegs(k + 1, n - Len(Seg(k).bytes))

\* the frame size the registry computes for the candidate at the buffer
\* front, 0 when it cannot be computed yet
CandSize(cand) ==
    LET r == get_expected_response_length(cand)
    IN  IF r.ok THEN r.size ELSE 0

\* the candidate is complete and its last two bytes are the CRC of the rest
CrcValid(cand) ==
    LET n == CandSize(cand) IN
    /\ n >= 4
    /\ Len(cand) >= n
    /\ computeCRC(SubSeq(cand, 1, n - 2)) = cand[n - 1] * 256 + cand[n]

\* C1: when the stream is k back-to-back CRC-valid, decodable frames for an
\* accepted slave id, then under every chunking the callback has received,
\* whenever the framer is idle, exactly the frames received completely so
\* far, in stream order, each once; at the end that is all k of them.
C1_NoGoodputLoss ==
    (\A i \in 1..Len(segs) : GoodFrame(i)) =>
        /\ outcome # "raised"
        /\ Len(delivered) <= Len(segs)
        /\ \A i \in 1..Len(delivered) : delivered[i] = ResultOf(Seg(i).msg)
        /\ pc = "idle" => Len(delivered) = WholeSegs(1, Len(received))

C1_Witness ==
    /\ \A i \in 1..Len(segs) : GoodFrame(i)
    /\ Len(segs) = 3
    /\ segs[1] # segs[2]
    /\ wire = <<>>
    /\ pc = "idle"
    /\ Len(delivered) = 3
    /\ buffer = <<>>

\* frameProcessIncomingPacket run to its end on framer f: the results the
\* callback receives
RECURSIVE RtuRunLoop(_, _, _)
RtuRunLoop(f, skip, out) ==
    LET t == RtuLoopTurn(f, slave, single, skip, undecodable) IN
    IF t.ctl = "continue"
    THEN RtuRunLoop(t.f, t.skip, out \o t.out)
    ELSE out \o t.out

\* the stream is a prefix P of n segments that are no frames, followed by
\* valid frames S
PrefixThenFrames(n) ==
    /\ n \in 1..(Len(segs) - 1)
    /\ \A i \in 1..n : Seg(i).kind # "frame"
    /\ \A i \in (n + 1)..Len(segs) : GoodFrame(i)

\* C5: when the stream is a prefix P without a CRC-valid frame followed by
\* valid frames S, then once all of it has been processed the callback has
\* received exactly what a fresh framer delivers for S alone.
C5_IdempotentResync ==
    \A n \in 1..Len(segs) :
        (PrefixThenFrames(n) /\ wire = <<>> /\ pc = "idle") =>
            delivered =
                RtuRunLoop([buffer |-> SegBytes(SubSeq(segs, n + 1, Len(segs))),
                            header |-> HeaderZero], FALSE, <<>>)

\* C6: every result handed to the callback is the PDU of a complete
\* candidate at the buffer front whose last two bytes, read high byte
\* first, are the CRC-16 of the bytes before them; a turn of the loop that
\* does not deliver leaves the callback log alone.
C6_OnlyCrcValidDelivered ==
    [][ /\ probe'.event = "deliver" =>
            /\ CrcValid(probe'.cand)
            /\ delivered' = delivered \o
                 << [slave_id |-> probe'.cand[1],
                     transaction_id |-> probe'.cand[1],
                     pdu |-> SubSeq(probe'.cand, 2,
                                    CandSize(probe'.cand) - 2)] >>
        /\ probe'.event # "deliver" => delivered' = delivered
      ]_vars

C6_Witness ==
    /\ probe.event = "deliver"
    /\ Len(delivered) = 2
    /\ \E i \in 1..Len(segs) : Seg(i).kind = "corrupt"

\* C7: a processing call ends with an exception only when a CRC-valid frame
\* could not be decoded; a CRC mismatch delivers nothing, raises nothing,
\* and by the next turn of the loop the buffer is at least one byte shorter.
C7_CrcErrorsSilent ==
    [][ /\ outcome' = "raised" =>
            probe'.event = "decodefail" /\ CrcValid(probe'.cand)
        /\ probe'.event = "crcfail" =>
            /\ ~CrcValid(probe'.cand)
            /\ delivered' = delivered
            /\ outcome' = outcome
            /\ pc' = "loop"
        /\ probe.event = "crcfail" => Len(buffer') < Len(buffer)
      ]_vars

\* the stream 01 03 02 00 0A 00 00 after its CRC check has failed
C7_Witness ==
    /\ segs = <<3>>
    /\ probe.event = "crcfail"
    /\ probe.cand = <<1, 3, 2, 0, 10, 0, 0>>
    /\ delivered = <<>>

\* the indices i >= 1 of buf at which a frame could start
LaterStarts(buf) ==
    {i \in 1..(Len(buf) - 2) : StartAt(buf, i, slave, Broadcast)}

\* C8: a CRC failure leaves the buffer as it was; the next scan starts at
\* index 1 and examines the candidate at the lowest index i >= 1 that
\* satisfies the start predicate, and no byte from that index on is lost.
C8_CrcFailureSkipsOneByte ==
    [][ probe.event = "crcfail" =>
          /\ buffer = probe.cand
          /\ LaterStarts(buffer) = {} => probe'.event = "nostart"
          /\ LaterStarts(buffer) # {} =>
               LET i == CHOOSE j \in LaterStarts(buffer) :
                          \A k \in LaterStarts(buffer) : j <= k
               IN  /\ Len(probe'.cand) >= Len(buffer) - i
                   /\ LastN(probe'.cand, Len(buffer) - i) = Drop(buffer, i)
                   /\ i <= Len(buffer) - 4 =>
                        /\ probe'.event # "nostart"
                        /\ probe'.cand = Drop(buffer, i)
      ]_vars

\* a frame behind the failed candidate is the next candidate examined
C8_Witness ==
    /\ probe.event = "deliver"
    /\ probe.skip
    /\ Len(probe.before) > Len(probe.cand)
    /\ Len(probe.before) >= 7
    /\ SubSeq(probe.before, 1, 7) = <<1, 3, 2, 0, 10, 0, 0>>

\* C9: when a CRC-valid frame cannot be decoded, the error reaches the
\* caller and the frame's bytes have left the buffer.
C9_DecodeFailureAdvances ==
    probe.event = "decodefail" =>
        /\ outcome = "raised"
        /\ buffer = Drop(probe.cand, CandSize(probe.cand))

\* C10: with single-context off and no broadcast, no result handed to the
\* callback carries a unit id outside the slave list; frames for other
\* slaves are passed over and the frames for accepted slaves behind them
\* are still delivered.
RECURSIVE AcceptedResults(_)
AcceptedResults(k) ==
    IF k = 0 THEN <<>>
    ELSE AcceptedResults(k - 1) \o
         (IF GoodFrame(k) THEN <<ResultOf(Seg(k).msg)>> ELSE <<>>)

C10_SlaveFilter ==
    (~single /\ ~Broadcast) =>
        /\ \A i \in 1..Len(delivered) : InList(delivered[i].slave_id, slave)
        /\ (/\ \A i \in 1..Len(segs) : Seg(i).kind = "frame"
            /\ pc = "idle")
           => delivered = AcceptedResults(WholeSegs(1, Len(received)))

C10_Witness ==
    /\ ~single /\ ~Broadcast
    /\ Len(segs) = 3
    /\ Seg(1).kind = "frame" /\ Seg(1).msg.slave_id = 2
    /\ Seg(2).kind = "frame" /\ Seg(2).msg.slave_id = 1
    /\ Seg(3).kind = "frame" /\ Seg(3).msg.slave_id = 2
    /\ wire = <<>>
    /\ pc = "idle"
    /\ Len(delivered) = 1

\* C11: a scan that finds no frame start in a buffer of 4 bytes or more
\* leaves exactly the last 3 bytes of the buffer it scanned; a buffer of
\* fewer than 4 bytes is left as it is; the call then returns with at most
\* 3 bytes in the buffer.
C11_NoCandidateTrimming ==
    probe.event = "nostart" =>
        /\ Len(probe.before) >= 4 => buffer = LastN(probe.before, 3)
        /\ Len(probe.before) < 4 => buffer = probe.before
        /\ Len(buffer) <= 3
        /\ pc = "idle"
        /\ outcome = "returned"

\* a scan of more than 4 bytes, none of them a frame start
C11_Witness ==
    /\ probe.event = "nostart"
    /\ Len(probe.before) > 4
    /\ buffer = LastN(probe.before, 3)
    /\ delivered = <<>>

----------------------------------------------------------------------------
(* Vocabulary of the Socket (MBAP) claims.                                 *)

SSeg(i) == SocketCatalogue[segs[i]]

\* the frame of segment i is well-formed, passes the slave-id validation
\* and the transaction-id check of the run, and is decodable
SocketGoodFrame(i) ==
    /\ SSeg(i).kind = "frame"
    /\ SocketValidateSlaveId(
           [buffer |-> <<>>,
            header |-> [HeaderZero EXCEPT !.uid = SSeg(i).msg.slave_id]],
           slave, single, transport)
    /\ tid = <<>> \/ tid[1] = SSeg(i).msg.transaction_id
    /\ SSeg(i).msg.function_code \notin undecodable

RECURSIVE SocketWholeSegs(_, _)
SocketWholeSegs(k, n) ==
    IF k > Len(segs) \/ Len(SSeg(k).bytes) > n THEN k - 1
    ELSE SocketWholeSegs(k + 1, n - Len(SSeg(k).bytes))

\* C2: after a well-formed frame with length field LEN has been delivered,
\* exactly hsize - 1 + LEN bytes have left the front of the buffer and
\* every byte behind the frame is still there, unchanged and in order.
C2_ExactConsumption ==
    probe.event = "deliver" =>
        buffer = Drop(probe.before, SocketHsize - 1 + probe.hdr.len)

\* C3: the bytes handed to the PDU decoder for a ready frame are the
\* function code and the LEN - 2 payload bytes, buffer positions
\* 7 .. 6 + LEN - 1, whatever follows the frame in the buffer.
C3_ExactPayload ==
    probe.event \in {"deliver", "decodefail", "tidmismatch"} =>
        probe.data = Slice(probe.before, SocketHsize,
                           SocketHsize - 1 + probe.hdr.len)

\* C4: when the stream is well-formed frames for an accepted slave, one
\* call of frameProcessIncomingPacket delivers every complete frame the
\* buffer holds, in stream order, leaving only an incomplete one behind.
C4_ProcessesAllComplete ==
    (\A i \in 1..Len(segs) : SocketGoodFrame(i)) =>
        /\ outcome # "raised"
        /\ Len(delivered) = SocketWholeSegs(1, Len(received))
        /\ \A i \in 1..Len(delivered) :
               /\ delivered[i].slave_id = SSeg(i).msg.slave_id
               /\ delivered[i].transaction_id = SSeg(i).msg.transaction_id

----------------------------------------------------------------------------
(* Encoding a message and feeding the packet to an empty framer.           *)

\* bytes the payloads of the model are made of
DataBytes == {0, 10, 255}

\* message.encode() of the PDUs the registry knows: for function code 3 a
\* byte count followed by that many bytes, for function code 7 one byte
Encodings(fc) ==
    IF fc = 3
    THEN UNION {{<<n>> \o p : p \in [1..n -> DataBytes]} : n \in 0..MaxData}
    ELSE {<<b>> : b \in DataBytes}

\* the messages handed to buildPacket
Messages ==
    UNION {{[transaction_id |-> t, protocol_id |-> 0, slave_id |-> u,
             function_code |-> fc, data |-> d] :
                t \in {0, 258}, u \in {1, 2}, d \in Encodings(fc)} :
           fc \in function_codes}

InitRtuEncode ==
    /\ method = "rtu"
    /\ buffer = <<>>
    /\ header = HeaderZero
    /\ segs = <<>>
    /\ wire = <<>>
    /\ received = <<>>
    /\ request \in Messages
    /\ client = NoClient
    /\ mock = NoTransport
    /\ now = 0
    /\ call = NoCall
    /\ slave \in {<<request.slave_id>>, <<0>>, <<9, request.slave_id>>}
    /\ single \in BOOLEAN
    /\ undecodable = {}
    /\ skip_cur_frame = FALSE
    /\ pc = "build"
    /\ outcome = "none"
    /\ delivered = <<>>
    /\ tid = <<>>
    /\ transport = "None"
    /\ probe = NoProbe

\* ModbusRtuFramer.buildPacket(request); the packet goes on the wire
RtuBuildPacketCall ==
    /\ method = "rtu"
    /\ pc = "build"
    /\ wire' = RtuBuildPacket(request)
    /\ request' = [request EXCEPT !.transaction_id = request.slave_id]
    /\ pc' = "idle"
    /\ UNCHANGED <<method, buffer, header, segs, received, slave, single,
                   skip_cur_frame, outcome, delivered, undecodable, tid,
                   transport, probe, client, mock, now, call>>

NextRtuEncode ==
    RtuBuildPacketCall \/ RtuProcessIncomingPacket \/ RtuFrameProcessLoop

SpecRtuEncode == InitRtuEncode /\ [][NextRtuEncode]_vars

InitSocketEncode ==
    /\ method = "socket"
    /\ buffer = <<>>
    /\ header = HeaderZero
    /\ segs = <<>>
    /\ wire = <<>>
    /\ received = <<>>
    /\ request \in Messages
    /\ client = NoClient
    /\ mock = NoTransport
    /\ now = 0
    /\ call = NoCall
    /\ slave \in {<< <<"", request.slave_id>> >>, << <<"", 0>> >>}
    /\ single \in BOOLEAN
    /\ tid \in {<<>>, <<request.transaction_id>>}
    /\ transport = "None"
    /\ undecodable = {}
    /\ skip_cur_frame = FALSE
    /\ pc = "build"
    /\ outcome = "none"
    /\ delivered = <<>>
    /\ probe = NoProbe

\* ModbusSocketFramer.buildPacket(request); the packet goes on the wire
SocketBuildPacketCall ==
    /\ method = "socket"
    /\ pc = "build"
    /\ wire' = SocketBuildPacket(request)
    /\ pc' = "idle"
    /\ UNCHANGED <<method, buffer, header, segs, received, slave, single,
                   skip_cur_frame, outcome, delivered, undecodable, tid,
                   transport, probe, request, client, mock, now, call>>

NextSocketEncode == SocketBuildPacketCall \/ SocketProcessIncomingPacket

SpecSocketEncode == InitSocketEncode /\ [][NextSocketEncode]_vars

----------------------------------------------------------------------------
(* The client (transaction dispatcher) over a Socket framer, writing to    *)
(* the MockTransport of the tests.  One execute is in progress at a time.  *)

\* what execute returns for a broadcast request
BroadcastSent == "Broadcast write sent - no response expected"

\* the requests handed to execute: a read of one register from unit 0
\* (the broadcast address) or unit 1
ClientRequests ==
    {[transaction_id |-> 0, protocol_id |-> 0, slave_id |-> u,
      function_code |-> 3, data |-> <<0, 0, 0, 1>>] : u \in {0, 1}}

\* req.execute(ctx): the response to a request, one register of value 10
ResponseTo(req) == [req EXCEPT !.data = <<2, 0, 10>>]

\* MockTransport.write(data): drop the write while retries are left, else
\* start a task that will answer req; `written` logs every call
MockTransportWrite(m, req, data) ==
    IF m.retries # 0
    THEN [m EXCEPT !.retries = @ - 1, !.written = Append(@, data),
                   !.dropped = @ + 1]
    ELSE [m EXCEPT !.tasks = Append(@, req), !.written = Append(@, data)]

\* the broadcast test that is never true
IsBroadcast_Never(c, message) == FALSE

\* execute, step 1: the request is a broadcast and broadcast is enabled
IsBroadcast(c, message) == c.broadcast_enable /\ message.slave_id = 0

\* the transaction id of the next request: sequential modulo 2^16,
\* skipping the ids in use
NextTid(c) ==
    LET k == CHOOSE i \in 0..Cardinality(c.pending) :
                 /\ (c.next_tid + i) % 65536 \notin c.pending
                 /\ \A j \in 0..(i - 1) :
                        (c.next_tid + j) % 65536 \in c.pending
    IN  (c.next_tid + k) % 65536

\* the response callback of the client: a reply whose transaction id is
\* pending completes that transaction, any other reply is dropped
HandleResponse(c, out) ==
    IF out # <<>> /\ out[1].transaction_id \in c.pending
    THEN [c EXCEPT !.pending = @ \ {out[1].transaction_id},
                   !.state = "Idle", !.result = "response"]
    ELSE c

InitClient ==
    /\ method = "socket"
    /\ buffer = <<>>
    /\ header = HeaderZero
    /\ segs = <<>>
    /\ wire = <<>>
    /\ received = <<>>
    /\ slave = << <<"", 0>> >>
    /\ single = FALSE
    /\ tid = <<>>
    /\ transport = "None"
    /\ undecodable = {}
    /\ skip_cur_frame = FALSE
    /\ pc = "idle"
    /\ outcome = "none"
    /\ delivered = <<>>
    /\ probe = NoProbe
    /\ request = NoMessage
    /\ client \in {[NoClient EXCEPT !.broadcast_enable = b, !.retries = r,
                                    !.next_tid = t] :
                       b \in BOOLEAN, r \in 0..MaxRetries, t \in {1, 65535}}
    /\ mock \in {[NoTransport EXCEPT !.retries = d] :
                     d \in 0..(MaxRetries + 2)}
    /\ now = 0
    /\ call = NoCall

\* execute(request) up to its first wait.  A broadcast is written and
\* answered with the sentinel at once; any other request gets a
\* transaction id, is registered as pending and written, and execute
\* waits for the reply.
ClientExecute ==
    /\ client.state = "Idle"
    /\ client.executes < MaxExecutes
    /\ \E m \in ClientRequests :
         IF IsBroadcast(client, m)
         THEN /\ request' = m
              /\ mock' = MockTransportWrite(mock, m, SocketBuildPacket(m))
              /\ client' = [client EXCEPT !.result = BroadcastSent,
                                          !.executes = @ + 1]
         ELSE \E r \in {[m EXCEPT !.transaction_id = NextTid(client)]} :
              /\ request' = r
              /\ mock' = MockTransportWrite(mock, r, SocketBuildPacket(r))
              /\ client' =
                    [client EXCEPT
                        !.pending = @ \cup {r.transaction_id},
                        !.next_tid = (r.transaction_id + 1) % 65536,
                        !.retries_left = client.retries,
                        !.state = "WaitingForReply",
                        !.result = "none",
                        !.executes = @ + 1]
    /\ UNCHANGED framerVars
    /\ UNCHANGED sendVars

\* execute, step 5: retries are left when the timer fires
RetriesRemain_OneMore(c) == c.retries_left >= 0

RetriesRemain(c) == c.retries_left > 0

\* the timer of execute with the request not written again on a retry
ClientTimeout_NoResend ==
    /\ client.state = "WaitingForReply"
    /\ mock.tasks = <<>>
    /\ IF RetriesRemain(client)
       THEN /\ client' = [client EXCEPT !.retries_left = @ - 1]
            /\ mock' = mock
       ELSE /\ client' = [client EXCEPT
                             !.state = "Idle",
                             !.pending = @ \ {request.transaction_id},
                             !.result = "ModbusIOException"]
            /\ mock' = mock
    /\ UNCHANGED request
    /\ UNCHANGED framerVars
    /\ UNCHANGED sendVars

\* the timer of execute fires; the MockTransport answers well within the
\* timeout, so it fires only when no answer is on its way.  With retries
\* left the request is written again, else the transaction ends with the
\* error.
ClientTimeout ==
    /\ client.state = "WaitingForReply"
    /\ mock.tasks = <<>>
    /\ IF RetriesRemain(client)
       THEN /\ client' = [client EXCEPT !.retries_left = @ - 1]
            /\ mock' = MockTransportWrite(mock, request,
                                          SocketBuildPacket(request))
       ELSE /\ client' = [client EXCEPT
                             !.state = "Idle",
                             !.pending = @ \ {request.transaction_id},
                             !.result = "ModbusIOException"]
            /\ mock' = mock
    /\ UNCHANGED request
    /\ UNCHANGED framerVars
    /\ UNCHANGED sendVars

\* MockTransport.delayed_resp: build the response packet and hand it to
\* the client's data_received, which runs the framer on it with the
\* client's response callback.
MockDelayedResp ==
    /\ mock.tasks # <<>>
    /\ \E pkt \in {SocketBuildPacket(ResponseTo(Head(mock.tasks)))} :
       \E r \in {SocketFrameProcess([buffer |-> buffer \o pkt,
                                      header |-> header],
                                     slave, single, tid, transport,
                                     undecodable)} :
           /\ received' = received \o pkt
           /\ buffer' = r.f.buffer
           /\ header' = r.f.header
           /\ delivered' = delivered \o r.out
           /\ outcome' = IF r.raised THEN "raised" ELSE "returned"
           /\ probe' = [event |-> r.event, before |-> buffer \o pkt,
                        cand |-> buffer \o pkt, skip |-> FALSE,
                        data |-> r.data, hdr |-> r.hdr, seen |-> r.seen]
           /\ client' = HandleResponse(client, r.out)
    /\ mock' = [mock EXCEPT !.tasks = Tail(@)]
    /\ UNCHANGED <<method, wire, segs, slave, single, skip_cur_frame, pc,
                   undecodable, tid, transport, request>>
    /\ UNCHANGED sendVars

NextClient == ClientExecute \/ ClientTimeout \/ MockDelayedResp

SpecClient == InitClient /\ [][NextClient]_vars

----------------------------------------------------------------------------
(* ModbusRtuFramer.sendPacket and recvPacket over the client's timing      *)
(* state.  In this machine `client` is the serial client: its transaction  *)
(* state, last_frame_end (<<>> for None, else <<t>>), silent_interval and  *)
(* comm_params.timeout_connect.  `now` is time.time(); time.sleep(d)       *)
(* advances it by d, and it advances by itself between the calls.          *)

\* ModbusTransactionState, the states the client timing state names
TransactionStates ==
    {"IDLE", "SENDING", "WAITING_FOR_REPLY", "TRANSACTION_COMPLETE",
     "RETRYING"}

SilentIntervals == {2}

ConnectTimeouts == {1, 3}

\* a new serial client
RtuClient(si, tc) ==
    [state |-> "IDLE", last_frame_end |-> <<>>, silent_interval |-> si,
     timeout_connect |-> tc]

\* Python truth of client.last_frame_end: None and 0 are false
LastFrameEndSet(c) == c.last_frame_end # <<>> /\ c.last_frame_end[1] # 0

\* client.idle_time(): last_frame_end + silent_interval, 0 with
\* last_frame_end unset
idle_time(c) ==
    IF c.last_frame_end = <<>> THEN 0
    ELSE c.last_frame_end[1] + c.silent_interval

\* the sleep of the TRANSACTION_COMPLETE branch
CompleteSleep(c, timestamp) ==
    IF LastFrameEndSet(c)
    THEN IF timestamp - idle_time(c) <= c.silent_interval
         THEN c.silent_interval ELSE 0
    ELSE c.silent_interval

\* `elif time.time() > timeout`
TimedOut(t, timeout) == t > timeout

\* the branch taken then: the transaction is reset to IDLE
OnTimeout_KeepsState(c) == c

OnTimeout(c) == [c EXCEPT !.state = "IDLE"]

\* One turn of the while loop of sendPacket, entered with the client c at
\* time t: the client and the clock after it, and whether the loop was
\* left ("send") or is tested again ("loop").  The while test itself is
\* the first case.
SendPacketTurn(c, t, timeout) ==
    CASE c.state = "IDLE" ->
           [client |-> c, now |-> t, ctl |-> "send", slept |-> 0]
      [] c.state = "TRANSACTION_COMPLETE" ->
           [client |-> [c EXCEPT !.state = "IDLE"],
            now |-> t + CompleteSleep(c, t), ctl |-> "loop",
            slept |-> CompleteSleep(c, t)]
      [] c.state = "RETRYING" ->
           [client |-> c, now |-> t + c.timeout_connect, ctl |-> "send",
            slept |-> c.timeout_connect]
      [] OTHER ->
           IF TimedOut(t, timeout)
           THEN [client |-> OnTimeout(c), now |-> t, ctl |-> "loop",
                 slept |-> 0]
           ELSE [client |-> c, now |-> t + c.silent_interval,
                 ctl |-> "loop", slept |-> c.silent_interval]

\* `super().resetFrame()` at the head of sendPacket
SendPacketResetFrame_KeepsBuffer(f) == RtuResetFrame(f)

SendPacketResetFrame(f) == BaseResetFrame(f)

\* the request of this machine, and the packet handed to sendPacket
SendRequest ==
    [NoMessage EXCEPT !.slave_id = 1, !.function_code = 3,
                      !.data = <<0, 0, 0, 1>>]

SendMessage == RtuBuildPacket(SendRequest)

\* A new framer and a new client, the bytes of the segments ss on the way.
InitSend(ss) ==
    /\ method = "rtu"
    /\ buffer = <<>>
    /\ header = HeaderZero
    /\ segs = ss
    /\ wire = SegBytes(segs)
    /\ received = <<>>
    /\ slave = <<1>>
    /\ single = FALSE
    /\ undecodable = {}
    /\ skip_cur_frame = FALSE
    /\ pc = "idle"
    /\ outcome = "none"
    /\ delivered = <<>>
    /\ tid = <<>>
    /\ transport = "None"
    /\ probe = NoProbe
    /\ request = SendRequest
    /\ client \in {RtuClient(si, tc) :
                       si \in SilentIntervals, tc \in ConnectTimeouts}
    /\ mock = NoTransport
    /\ now = 1
    /\ call = NoCall

\* nothing is on the way to the framer
InitRtuSend == InitSend(<<>>)

\* The transaction manager, between two calls, moves the client to
\* another transaction state.
SetState ==
    /\ pc = "idle"
    /\ call.pc = "idle"
    /\ \E s \in TransactionStates \ {client.state} :
           client' = [client EXCEPT !.state = s]
    /\ UNCHANGED <<request, mock, now, call>>
    /\ UNCHANGED framerVars

\* Time passes.
Tick ==
    /\ pc = "idle"
    /\ call.pc = "idle"
    /\ now < MaxTime
    /\ now' = now + 1
    /\ UNCHANGED <<request, client, mock, call>>
    /\ UNCHANGED framerVars

\* sendPacket(message) is called: the frame is reset, start and timeout
\* are taken.
SendPacketCall ==
    /\ pc = "idle"
    /\ call.pc = "idle"
    /\ call.n < MaxSends
    /\ \E f \in {SendPacketResetFrame([buffer |-> buffer,
                                       header |-> header])} :
           /\ buffer' = f.buffer
           /\ header' = f.header
    /\ call' = [call EXCEPT !.pc = "loop",
                            !.timeout = now + client.timeout_connect,
                            !.n = @ + 1,
                            !.mark = Len(received),
                            !.state0 = client.state]
    /\ UNCHANGED <<method, wire, segs, received, slave, single,
                   skip_cur_frame, pc, outcome, delivered, undecodable, tid,
                   transport, probe, request, client, mock, now>>

\* The while test of sendPacket and, unless the loop is left, one turn.
SendPacketLoop ==
    /\ call.pc = "loop"
    /\ \E t \in {SendPacketTurn(client, now, call.timeout)} :
           /\ client' = t.client
           /\ now' = t.now
           /\ call' = IF client.state = "TRANSACTION_COMPLETE"
                      THEN [call EXCEPT
                              !.pc = t.ctl,
                              !.elapsed =
                                  IF client.last_frame_end = <<>> THEN <<>>
                                  ELSE <<now - client.last_frame_end[1]>>,
                              !.slept = t.slept]
                      ELSE [call EXCEPT !.pc = t.ctl]
    /\ UNCHANGED <<request, mock>>
    /\ UNCHANGED framerVars

\* Behind the loop: client.send(message), which takes d ticks and returns
\* the number of bytes written; last_frame_end becomes the time after it.
SendPacketSend ==
    /\ call.pc = "send"
    /\ \E d \in 0..1 :
           /\ now' = now + d
           /\ client' = [client EXCEPT !.last_frame_end = <<now + d>>]
    /\ call' = [NoCall EXCEPT !.n = call.n,
                              !.sends = call.sends + 1,
                              !.size = Len(SendMessage),
                              !.mark = call.mark,
                              !.state0 = call.state0]
    /\ UNCHANGED <<request, mock>>
    /\ UNCHANGED framerVars

\* recvPacket(size): client.recv, then last_frame_end is the time after it.
RecvPacket ==
    /\ pc = "idle"
    /\ call.pc = "idle"
    /\ client.last_frame_end # <<now>>
    /\ client' = [client EXCEPT !.last_frame_end = <<now>>]
    /\ UNCHANGED <<request, mock, now, call>>
    /\ UNCHANGED framerVars

NextRtuSend ==
    \/ SetState
    \/ Tick
    \/ SendPacketCall
    \/ SendPacketLoop
    \/ SendPacketSend
    \/ RecvPacket

SpecRtuSend == InitRtuSend /\ [][NextRtuSend]_vars

\* the call runs on: its steps are taken as long as they can be
SpecRtuSendFair ==
    /\ SpecRtuSend
    /\ WF_vars(SendPacketLoop)
    /\ WF_vars(SendPacketSend)

\* The same calls on a framer that receives: bytes arrive and are framed
\* between two calls of sendPacket.  The byte streams are one response,
\* and a response behind another frame.
SendSegSeqs == {<<1>>, <<2, 1>>}

InitRtuSendReceive == \E ss \in SendSegSeqs : InitSend(ss)

RtuReceive ==
    /\ call.pc = "idle"
    /\ NextRtu

NextRtuSendReceive ==
    \/ SetState
    \/ RtuReceive
    \/ SendPacketCall
    \/ SendPacketLoop
    \/ SendPacketSend

SpecRtuSendReceive == InitRtuSendReceive /\ [][NextRtuSendReceive]_vars

----------------------------------------------------------------------------
(* The RTU framer called with a slave list that differs from call to      *)
(* call: `slave` is an argument of processIncomingPacket, the buffer and   *)
(* the header stay with the instance.                                      *)

SlaveLists == {<<1>>, <<2>>}

\* the byte streams of this machine: up to two segments
SlaveSegSeqs == {ss \in SegSeqs : Len(ss) <= 2}

InitRtuSlaves ==
    /\ InitRtu
    /\ segs \in SlaveSegSeqs
    /\ slave \in SlaveLists
    /\ single = FALSE
    /\ undecodable = {}

\* ModbusFramer.processIncomingPacket(data, callback, slave) with the
\* slave list of this call.
RtuProcessIncomingPacketFor ==
    /\ method = "rtu"
    /\ pc = "idle"
    /\ slave' \in SlaveLists
    /\ \E n \in 1..Len(wire) :
         /\ buffer' = buffer \o SubSeq(wire, 1, n)
         /\ received' = received \o SubSeq(wire, 1, n)
         /\ wire' = Drop(wire, n)
    /\ skip_cur_frame' = FALSE
    /\ pc' = "loop"
    /\ outcome' = "running"
    /\ probe' = NoProbe
    /\ UNCHANGED <<method, header, segs, single, delivered, undecodable,
                   tid, transport>>
    /\ UNCHANGED clientVars

NextRtuSlaves == RtuProcessIncomingPacketFor \/ RtuFrameProcessLoop

SpecRtuSlaves == InitRtuSlaves /\ [][NextRtuSlaves]_vars

----------------------------------------------------------------------------
(* Claims about both framers.                                              *)

\* C12: in every reachable state of either framer the buffer is a
\* contiguous suffix of the concatenation of all the bytes received so
\* far: bytes have left it from the front only, and none was altered,
\* reordered or taken out of the middle.
C12_BufferIsSuffix ==
    /\ Len(buffer) <= Len(received)
    /\ buffer = SubSeq(received, Len(received) - Len(buffer) + 1,
                       Len(received))

\* an RTU buffer after garbage was discarded, a frame delivered and an
\* incomplete frame kept
C12_Witness ==
    /\ method = "rtu"
    /\ Len(delivered) = 1
    /\ buffer # <<>>
    /\ probe.event = "notready"
    /\ Len(received) > Len(buffer) + 7
    /\ Seg(1).kind = "garbage"

----------------------------------------------------------------------------
(* Claims about the Socket (MBAP) framer.                                  *)

\* the 16-bit big-endian number at 0-based positions i, i + 1 of b
BE16(b, i) == b[i + 1] * 256 + b[i + 2]

\* the buffer b holds more than 7 bytes, its length field is at least 2
\* and it holds hsize - 1 + LEN bytes
MbapReady(b) ==
    /\ Len(b) > 7
    /\ BE16(b, 4) >= 2
    /\ Len(b) >= 7 - 1 + BE16(b, 4)

\* C13: checkFrame reports a frame ready exactly when the buffer holds more
\* than 7 bytes, the big-endian length field at bytes 4..5 is at least 2
\* and the buffer holds at least hsize - 1 + LEN bytes; the header then
\* holds tid, pid, len and uid decoded big-endian from the first 7 bytes.
C13_MbapReadiness ==
    probe.event # "none" =>
        /\ probe.event # "notready" <=> MbapReady(probe.before)
        /\ MbapReady(probe.before) =>
              /\ probe.hdr.tid = BE16(probe.before, 0)
              /\ probe.hdr.pid = BE16(probe.before, 2)
              /\ probe.hdr.len = BE16(probe.before, 4)
              /\ probe.hdr.uid = probe.before[7]

\* a frame that became ready with exactly hsize - 1 + LEN bytes buffered
C13_Witness ==
    /\ probe.event = "deliver"
    /\ probe.hdr.tid = 2
    /\ probe.hdr.len = 2
    /\ Len(probe.before) = 8
    /\ Len(received) > 8

\* C14: when the length field parsed from the header is below 2, the call
\* delivers nothing and raises nothing, the 7 header bytes and only they
\* leave the buffer, and the header record is reset, so the bytes behind
\* the malformed header are still there for the next call.
C14_ShortLengthDropsHeader ==
    [][ (/\ probe'.event = "notready"
         /\ Len(probe'.before) > 7
         /\ BE16(probe'.before, 4) < 2) =>
            /\ outcome' = "returned"
            /\ delivered' = delivered
            /\ header' = HeaderZero
            /\ buffer' = Drop(probe'.before, 7)
      ]_vars

\* C15: when a ready frame that passed the slave-id validation cannot be
\* decoded, the call ends with the I/O error, the buffer is empty, the
\* header record is reset and the callback has not been invoked.
C15_DecodeFailureResets ==
    [][ probe'.event = "decodefail" =>
            /\ MbapReady(probe'.before)
            /\ outcome' = "raised"
            /\ buffer' = <<>>
            /\ header' = HeaderZero
            /\ delivered' = delivered
      ]_vars

\* an undecodable frame with bytes of the next frame behind it
C15_Witness ==
    /\ probe.event = "decodefail"
    /\ probe.hdr.len = 2
    /\ Len(probe.before) > 10
    /\ buffer = <<>>
    /\ outcome = "raised"

\* C16: a decoded frame reaches the callback exactly when no expected
\* transaction id was supplied or the frame's tid equals the expected one,
\* whatever 16-bit value that is, 0 included; a frame with another tid is
\* dropped without an error.
C16_TidMatching ==
    [][ probe'.event \in {"deliver", "tidmismatch"} =>
            /\ probe'.event = "deliver" <=>
                  (tid = <<>> \/ tid[1] = probe'.hdr.tid)
            /\ probe'.event = "deliver" => Len(delivered') = Len(delivered) + 1
            /\ probe'.event = "tidmismatch" =>
                  delivered' = delivered /\ outcome' = "returned"
      ]_vars

\* the validation key of a unit id: the pair (peer address, uid) when the
\* transport reports a peer address, the bare uid otherwise
ValidationKey(uid) ==
    IF transport \in {"None", "nopeer"} THEN <<"", uid>>
    ELSE <<transport, uid>>

Accepted(uid) ==
    \/ single
    \/ \E i \in 1..Len(slave) : slave[i] = <<"", 0>>
    \/ \E i \in 1..Len(slave) : slave[i] = ValidationKey(uid)

\* C17: a ready frame is decoded, and delivered, only if single-context is
\* set, 0 is in the slave list or the validation key of its unit id is in
\* the slave list; a frame that fails this is neither decoded nor handed
\* to the callback, and no error is raised.
C17_SlaveValidation ==
    [][ /\ probe'.event \in {"deliver", "decodefail", "tidmismatch"} =>
            Accepted(probe'.hdr.uid)
        /\ probe'.event = "reject" =>
            /\ ~Accepted(probe'.hdr.uid)
            /\ probe'.data = <<>>
            /\ delivered' = delivered
            /\ outcome' = "returned"
        /\ Len(delivered') > Len(delivered) => probe'.event = "deliver"
      ]_vars

\* with a peer address reported: one frame accepted by its (peer, uid)
\* key, then a frame of another unit id refused
C17_Witness ==
    /\ transport = "hostA"
    /\ Len(delivered) = 1
    /\ delivered[1].slave_id = 1
    /\ probe.event = "reject"
    /\ probe.hdr.uid = 2

\* the step dropped a ready frame, for its slave id or its transaction
\* id: nothing is left in the buffer and the header is zeroed
RejectionEmptiesBuffer ==
    (method = "socket" /\ probe.event \in {"reject", "tidmismatch"})
        => /\ MbapReady(probe.cand)
           /\ buffer = <<>>
           /\ header = HeaderZero

\* the step delivered a frame: the buffer is what lay behind the frame's
\* hsize - 1 + LEN bytes
DeliveryRemovesOwnBytes ==
    (method = "socket" /\ probe.event = "deliver")
        => buffer = Drop(probe.cand, 7 - 1 + BE16(probe.cand, 4))

\* C31: when the MBAP framer drops a ready frame because its slave id is
\* not accepted or its transaction id is not the expected one, every
\* buffered byte is discarded and the header zeroed, complete frames
\* behind the dropped one included, whereas a delivered frame takes only
\* its own bytes out of the buffer.
C31_RejectionEmptiesBuffer ==
    /\ RejectionEmptiesBuffer
    /\ DeliveryRemovesOwnBytes

----------------------------------------------------------------------------
(* Claims about the callback of both framers.                              *)

\* C28: when the callback is invoked for a frame, the result carries the
\* slave id and the transaction id of the header, the bytes of the frame
\* are gone from the buffer and the header is reset: the framer the
\* callback meets holds only what lay behind the frame, and that is the
\* framer the processing step leaves.
C28_DeliverAfterAdvance ==
    probe.event = "deliver" =>
        /\ Len(probe.seen) = 1
        /\ delivered # <<>>
        /\ LET g == probe.seen[1]
               r == delivered[Len(delivered)]
           IN  /\ g.header = HeaderZero
               /\ g = [buffer |-> buffer, header |-> header]
               /\ Len(g.buffer) <= Len(probe.cand)
               /\ g.buffer = LastN(probe.cand, Len(g.buffer))
               /\ method = "rtu" =>
                    /\ Len(g.buffer) = Len(probe.cand) - CandSize(probe.cand)
                    /\ r.slave_id = probe.cand[1]
                    /\ r.transaction_id = probe.cand[1]
               /\ method = "socket" =>
                    /\ Len(g.buffer)
                         <= Len(probe.cand) - (6 + BE16(probe.cand, 4))
                    /\ r.slave_id = probe.hdr.uid
                    /\ r.transaction_id = probe.hdr.tid
                    /\ r.slave_id = probe.cand[7]
                    /\ r.transaction_id = BE16(probe.cand, 0)

\* an RTU frame was delivered with another frame behind it in the buffer:
\* the callback met the framer holding that other frame only
C28_Witness ==
    /\ method = "rtu"
    /\ probe.event = "deliver"
    /\ Len(probe.seen) = 1
    /\ probe.seen[1].buffer # <<>>
    /\ Len(probe.cand) = 12
    /\ probe.seen[1].buffer = <<2, 7, 0, 210, 48>>
    /\ probe.seen[1].header = HeaderZero

----------------------------------------------------------------------------
(* Claims about encoding.                                                  *)

\* C18: buildPacket(m) is slave id, function code and m.encode() followed
\* by the CRC-16 of those bytes, high byte first, and leaves
\* m.transaction_id = m.slave_id; an empty RTU framer accepting m.slave_id
\* that is fed the packet never fails a CRC check or raises, and once the
\* whole packet is in it has delivered exactly one frame, with slave id
\* and transaction id m.slave_id and payload function code ++ m.encode(),
\* and its buffer is empty.
C18_RtuRoundTrip ==
    LET body == <<request.slave_id, request.function_code>> \o request.data
        crc  == computeCRC(body)
    IN  /\ pc # "build" =>
              /\ received \o wire = body \o <<crc \div 256, crc % 256>>
              /\ request.transaction_id = request.slave_id
        /\ probe.event \notin {"crcfail", "reject", "decodefail", "error"}
        /\ outcome # "raised"
        /\ Len(delivered) <= 1
        /\ (pc = "idle" /\ wire = <<>>) =>
              /\ delivered =
                    << [slave_id |-> request.slave_id,
                        transaction_id |-> request.slave_id,
                        pdu |-> <<request.function_code>> \o request.data] >>
              /\ buffer = <<>>

\* a message of 7 bytes on the wire, fed in two pieces and delivered
C18_Witness ==
    /\ pc = "idle"
    /\ wire = <<>>
    /\ Len(received) = 7
    /\ request.function_code = 3
    /\ request.data = <<2, 255, 10>>
    /\ request.transaction_id = 2
    /\ Len(delivered) = 1
    /\ probe.event = "nostart"

\* C19: buildPacket(m) is the big-endian header (transaction id, protocol
\* id, len(data) + 2, slave id, function code) followed by data =
\* m.encode(), hsize - 1 + LEN bytes in all; an empty MBAP framer fed that
\* packet raises nothing, hands the decoder function code ++ data, and
\* once the whole packet is in it has delivered exactly one frame with the
\* message's tid, pid and uid, and its buffer is empty.
C19_MbapRoundTrip ==
    LET packet == received \o wire
        LEN    == Len(request.data) + 2
        pdu    == <<request.function_code>> \o request.data
    IN  /\ pc # "build" =>
              /\ Len(packet) = 7 - 1 + LEN
              /\ BE16(packet, 0) = request.transaction_id
              /\ BE16(packet, 2) = request.protocol_id
              /\ BE16(packet, 4) = LEN
              /\ packet[7] = request.slave_id
              /\ SubSeq(packet, 8, Len(packet)) = pdu
        /\ outcome # "raised"
        /\ probe.event \in {"none", "notready", "deliver"}
        /\ probe.event = "deliver" => probe.data = pdu
        /\ Len(delivered) <= 1
        /\ (pc = "idle" /\ wire = <<>>) =>
              /\ delivered =
                    << [slave_id |-> request.slave_id,
                        transaction_id |-> request.transaction_id,
                        protocol_id |-> request.protocol_id,
                        pdu |-> pdu] >>
              /\ buffer = <<>>

\* a message with a transaction id above 255, delivered from a buffer
\* holding exactly its packet
C19_Witness ==
    /\ pc = "idle"
    /\ wire = <<>>
    /\ request.transaction_id = 258
    /\ request.data = <<2, 255, 10>>
    /\ Len(received) = 11
    /\ Len(delivered) = 1
    /\ probe.event = "deliver"
    /\ Len(probe.before) = 11

----------------------------------------------------------------------------
(* Claims about the client.                                                *)

\* C20: an execute of a request with slave id 0 while broadcast is enabled
\* writes the frame to the transport once, returns the broadcast sentinel
\* in the same step, without entering the wait for a reply, and registers
\* no pending transaction; nothing is written for it afterwards, and no
\* transaction is pending while a broadcast is the current request.
C20_BroadcastRule ==
    [][ /\ (/\ client'.executes = client.executes + 1
            /\ request'.slave_id = 0
            /\ client.broadcast_enable) =>
               /\ mock'.written =
                     Append(mock.written, SocketBuildPacket(request'))
               /\ client'.result = BroadcastSent
               /\ client'.state = "Idle"
               /\ client'.pending = client.pending
        /\ (/\ client'.executes = client.executes
            /\ request.slave_id = 0
            /\ client.broadcast_enable) =>
               /\ mock'.written = mock.written
               /\ client'.pending = {}
               /\ client'.state = "Idle"
      ]_vars

\* a broadcast executed after an answered request; the transport has
\* answered the broadcast too and the answer was dropped
C20_Witness ==
    /\ client.broadcast_enable
    /\ client.executes = 2
    /\ request.slave_id = 0
    /\ client.result = BroadcastSent
    /\ client.pending = {}
    /\ Len(mock.written) = 2
    /\ mock.tasks = <<>>
    /\ Len(delivered) = 2

\* the first execute of the run is a request that expects a reply, and
\* the transport was set up to drop its first n writes
FirstExecuteDrops(n) ==
    /\ client.executes = 1
    /\ ~IsBroadcast(client, request)
    /\ mock.retries + mock.dropped = n

\* C21: when the transport drops the first n writes of a request, n being
\* at most the client's retries, and answers the next one, execute writes
\* the request again after each timeout and never more than n + 1 times in
\* all, and it ends with the decoded response, n + 1 writes made, all of
\* them the same packet, and no transaction pending.
C21_RetryUntilAnswered ==
    \A n \in 0..client.retries :
        FirstExecuteDrops(n) =>
            /\ Len(mock.written) <= n + 1
            /\ client.result # "ModbusIOException"
            /\ \A i \in 1..Len(mock.written) :
                   mock.written[i] = SocketBuildPacket(request)
            /\ client.state = "Idle" =>
                  /\ client.result = "response"
                  /\ Len(mock.written) = n + 1
                  /\ client.pending = {}
                  /\ Len(delivered) = 1
                  /\ delivered[1].transaction_id = request.transaction_id

\* the case of test_client_protocol_retry: two writes dropped, retries = 2
C21_Witness ==
    /\ FirstExecuteDrops(2)
    /\ client.retries = 2
    /\ client.state = "Idle"
    /\ client.result = "response"
    /\ Len(mock.written) = 3

\* C22: when the transport drops more writes than the client has retries,
\* so that no response ever arrives, execute makes exactly retries + 1
\* writes of the request and then ends the transaction with the error; it
\* neither waits on nor writes again.
C22_TimeoutAfterRetries ==
    \A n \in (client.retries + 1)..(MaxRetries + 2) :
        FirstExecuteDrops(n) =>
            /\ Len(mock.written) <= client.retries + 1
            /\ mock.tasks = <<>> /\ delivered = <<>>
            /\ client.result # "response"
            /\ \A i \in 1..Len(mock.written) :
                   mock.written[i] = SocketBuildPacket(request)
            /\ client.state = "Idle" =>
                  /\ client.result = "ModbusIOException"
                  /\ Len(mock.written) = client.retries + 1
                  /\ client.pending = {}
            /\ client.state # "Idle" =>
                  /\ client.state = "WaitingForReply"
                  /\ Len(mock.written) = 1 + client.retries - client.retries_left
                  /\ ENABLED ClientTimeout

\* the case of test_client_protocol_timeout: retries = 2, four writes to
\* drop, one of them left over
C22_Witness ==
    /\ client.executes = 1
    /\ client.retries = 2
    /\ mock.retries = 1
    /\ mock.dropped = 3
    /\ client.state = "Idle"
    /\ client.result = "ModbusIOException"
    /\ Len(mock.written) = 3

----------------------------------------------------------------------------
(* Claims about the processing loop of the RTU framer.                     *)

\* C24: a turn of the processing loop scans for the frame start from
\* index 1 (skip_cur_frame set) only when the turn before it, in the same
\* call, rejected its candidate, for its CRC or its slave id; the turn
\* behind a delivery scans from index 0.
C24_SkipOnlyAfterRejection ==
    [][(RtuFrameProcessLoop /\ skip_cur_frame)
         => probe.event \in {"crcfail", "reject"}]_vars

\* C27: a processing call ends after finitely many turns of its loop: a
\* turn that does not end the call shortens the buffer, or leaves it as
\* it is and sets skip_cur_frame, which was not set, so that a call on a
\* buffer of n bytes has at most 2n + 1 turns.  And the candidate the next
\* loop test settles on is shorter than the one this turn rejected or
\* delivered, by the whole frame after a delivery.
C27_LoopTerminates ==
    [][ /\ (pc = "loop" /\ pc' = "loop")
            => \/ Len(buffer') < Len(buffer)
               \/ /\ buffer' = buffer
                  /\ ~skip_cur_frame
                  /\ skip_cur_frame'
        /\ (pc = "loop" /\ probe.event \in {"crcfail", "reject", "deliver"})
            => /\ Len(probe'.cand) < Len(probe.cand)
               /\ probe.event = "deliver"
                    => Len(probe'.cand)
                         <= Len(probe.cand) - CandSize(probe.cand)
      ]_vars

\* a call has ended after a rejected candidate, a delivered frame and a
\* last scan that found no start
C27_Witness ==
    /\ pc = "idle"
    /\ outcome = "returned"
    /\ probe.event = "nostart"
    /\ probe.skip
    /\ Len(delivered) = 1
    /\ wire = <<>>
    /\ Len(segs) = 3

\* the candidate has fewer bytes than its frame size, or no size yet
Incomplete(cand) == CandSize(cand) = 0 \/ Len(cand) < CandSize(cand)

\* C25: a turn of the processing loop whose candidate at the buffer front
\* is incomplete ends the call by returning, drops no byte of the
\* candidate and does not take it for a CRC failure, whatever the slave
\* lists and the header of the calls before.
C25_WaitsForIncomplete ==
    [][(/\ pc = "loop"
        /\ probe'.event \notin {"none", "nostart"}
        /\ Incomplete(probe'.cand))
         => /\ probe'.event = "notready"
            /\ buffer' = probe'.cand
            /\ pc' = "idle"
            /\ outcome' = "returned"]_vars

----------------------------------------------------------------------------
(* Claims about sendPacket and recvPacket of the RTU framer.               *)

\* C23: whatever transaction state the client was in when sendPacket was
\* called, the frame is handed to client.send at least silent_interval
\* after the last_frame_end recorded before.
C23_SilentInterval ==
    [][(SendPacketSend /\ client.last_frame_end # <<>>)
         => now - client.last_frame_end[1] >= client.silent_interval]_vars

\* C26: a call of sendPacket made in state TRANSACTION_COMPLETE sleeps one
\* silent_interval when last_frame_end is unset, silent_interval - elapsed
\* when elapsed = now - last_frame_end is below silent_interval, and not at
\* all otherwise; the client is IDLE when the frame is sent, and
\* last_frame_end becomes the time after the send.
C26_SendAfterComplete ==
    [][(SendPacketSend /\ call.state0 = "TRANSACTION_COMPLETE")
         => /\ call.slept =
                  IF call.elapsed = <<>> THEN client.silent_interval
                  ELSE IF call.elapsed[1] < client.silent_interval
                       THEN client.silent_interval - call.elapsed[1]
                       ELSE 0
            /\ client.state = "IDLE"
            /\ client'.last_frame_end = <<now'>>]_vars

\* C29: a call of sendPacket, begun in any transaction state, comes to its
\* end; it has then called client.send once and returned the size that
\* gave; and a turn of the wait loop that finds a state other than IDLE,
\* TRANSACTION_COMPLETE or RETRYING with timeout_connect elapsed since the
\* call began makes the state IDLE.
C29_SendPacketSends ==
    /\ (call.pc # "idle") ~> (call.pc = "idle")
    /\ [](call.sends = IF call.pc = "idle" THEN call.n ELSE call.n - 1)
    /\ []((call.pc = "idle" /\ call.n > 0)
            => call.size = Len(SendMessage))
    /\ [][(/\ call.pc = "loop"
           /\ client.state \notin {"IDLE", "TRANSACTION_COMPLETE",
                                    "RETRYING"}
           /\ now > call.timeout
           /\ call' # call \/ client' # client \/ now' # now)
            => client'.state = "IDLE" /\ call'.pc = "loop"]_vars

\* a call begun in state SENDING has ended, its frame sent, the client
\* made IDLE by the timeout
C29_Witness ==
    /\ call.n = 1
    /\ call.pc = "idle"
    /\ call.sends = 1
    /\ call.size = Len(SendMessage)
    /\ call.state0 = "SENDING"
    /\ client.state = "IDLE"
    /\ client.last_frame_end # <<>>
    /\ client.last_frame_end[1] > client.timeout_connect

\* C30: sendPacket first empties the receive buffer and resets the header
\* record: while the call runs the buffer is empty and the header reset,
\* and from then on the buffer holds only bytes received after the call
\* began, never a byte that was pending before it.
C30_SendDiscardsPending ==
    call.n > 0
        => /\ call.pc # "idle" => buffer = <<>> /\ header = HeaderZero
           /\ Len(buffer) <= Len(received) - call.mark

\* all of one response has arrived, its first part before a call of
\* sendPacket and the rest after it, and no frame was delivered
C30_Witness ==
    /\ segs = <<1>>
    /\ wire = <<>>
    /\ call.n = 1
    /\ call.pc = "idle"
    /\ 0 < call.mark
    /\ call.mark < Len(received)
    /\ pc = "idle"
    /\ delivered = <<>>

====
